---------------------------- MODULE Spec2Model ----------------------------
(***************************************************************************)
(* A model of schemafy_core: YamlValue (yaml_value.rs), the insertion-     *)
(* ordered Mapping built on IndexMap (mapping.rs) and the compile_schemas  *)
(* build step (converter.rs).                                              *)
(*                                                                         *)
(* Encodings.                                                              *)
(*   - A 64-bit integer is its two's complement bit pattern, kept as four  *)
(*     16-bit limbs, least significant first: <<l0, l1, l2, l3>>.  A       *)
(*     32-bit integer is two limbs.  TLC's own integers are 32 bits wide,  *)
(*     so no i64 is ever held in one TLC integer.                          *)
(*   - A string is the sequence of its characters: <<"4", "2">> is "42".   *)
(*   - A YamlValue is a tagged tuple: <<"Null">>, <<"Bool", b>>,           *)
(*     <<"Number", limbs>>, <<"String", chars>>, <<"Sequence", values>>,   *)
(*     <<"Mapping", entries>>; a Mapping's entries are the IndexMap's      *)
(*     entry vector, a sequence of <<key, value>> in iteration order.      *)
(*   - Option: <<"Some", x>> or <<"None">>; a panic is <<"Panic">>.        *)
(***************************************************************************)
EXTENDS Integers, Sequences, FiniteSets, TLC

VARIABLES
    map,        \* Spec: the Mapping under test (its entry vector)
    ret,        \* Spec: what the last Mapping operation returned
    lastOp,     \* Spec: the name of the last Mapping operation
    firstIns,   \* Spec: history, the keys in the order of their first insertion
    removed,    \* Spec: history, whether an entry was ever removed or cleared
    pairSet,    \* SpecHash: the set S of key/value pairs to insert
    left,       \* SpecHash: a Mapping being built from S in one order
    right,      \* SpecHash: a Mapping being built from S in another order
    args,       \* the call specifications: the arguments of the call
    result,     \* the call specifications: what the call produced
    called      \* the call specifications: "ready", then the function called

mapVars == <<map, ret, lastOp, firstIns, removed>>

hashVars == <<pairSet, left, right>>

callVars == <<args, result, called>>

vars == <<map, ret, lastOp, firstIns, removed, pairSet, left, right,
          args, result, called>>

(***************************************************************************)
(* Machine integers                                                        *)
(***************************************************************************)

Base == 256 * 256

HalfBase == 128 * 256

Less == "Less"

Equal == "Equal"

Greater == "Greater"

Some(x) == <<"Some", x>>

None == <<"None">>

Panic == <<"Panic">>

\* The limbs of a small natural number n < Base * (Base \div 2), on w limbs.
RECURSIVE NatLimbs(_, _)
NatLimbs(n, w) ==
    IF w = 0 THEN <<>> ELSE <<n % Base>> \o NatLimbs(n \div Base, w - 1)

ZeroLimbs(w) == [i \in 1..w |-> 0]

NotLimbs(x) == [i \in 1..Len(x) |-> Base - 1 - x[i]]

\* x + y + c on equal-length limb vectors; the last element of the result is
\* the carry out.
RECURSIVE AddC(_, _, _)
AddC(x, y, c) ==
    IF Len(x) = 0 THEN <<c>>
    ELSE LET s == x[1] + y[1] + c
         IN  <<s % Base>> \o AddC(Tail(x), Tail(y), s \div Base)

\* x * k + c for a small k; the last element of the result is the limb that
\* overflows the width of x.
RECURSIVE MulSmall(_, _, _)
MulSmall(x, k, c) ==
    IF Len(x) = 0 THEN <<c>>
    ELSE LET p == x[1] * k + c
         IN  <<p % Base>> \o MulSmall(Tail(x), k, p \div Base)

\* x divided by a small d, from the most significant limb down:
\* <<quotient limbs, remainder>>.
RECURSIVE DivSmall(_, _, _)
DivSmall(x, d, r) ==
    IF Len(x) = 0 THEN <<<<>>, r>>
    ELSE LET n    == Len(x)
             cur  == r * Base + x[n]
             rest == DivSmall(SubSeq(x, 1, n - 1), d, cur % d)
         IN  <<rest[1] \o <<cur \div d>>, rest[2]>>

\* Unsigned comparison of equal-length limb vectors.
RECURSIVE CmpU(_, _)
CmpU(x, y) ==
    IF Len(x) = 0 THEN Equal
    ELSE LET n == Len(x)
         IN  IF x[n] < y[n] THEN Less
             ELSE IF x[n] > y[n] THEN Greater
             ELSE CmpU(SubSeq(x, 1, n - 1), SubSeq(y, 1, n - 1))

IsNeg(x) == x[Len(x)] >= HalfBase

\* Signed (two's complement) comparison: i64::cmp, i32::cmp.
CmpS(x, y) ==
    IF IsNeg(x) /= IsNeg(y) THEN (IF IsNeg(x) THEN Less ELSE Greater)
    ELSE CmpU(x, y)

WrapWidth(x) == SubSeq(x, 1, Len(x) - 1)

NegLimbs(x) == WrapWidth(AddC(NotLimbs(x), ZeroLimbs(Len(x)), 1))

\* The magnitude |x| of a two's complement x, as an unsigned vector of the
\* same width (|i64::MIN| = 2^63 fits).
Magnitude(x) == IF IsNeg(x) THEN NegLimbs(x) ELSE x

\* The i64 of a small TLC integer.
I64(n) == IF n >= 0 THEN NatLimbs(n, 4) ELSE NegLimbs(NatLimbs(-n, 4))

I32(n) == IF n >= 0 THEN NatLimbs(n, 2) ELSE NegLimbs(NatLimbs(-n, 2))

I64_MAX == <<Base - 1, Base - 1, Base - 1, HalfBase - 1>>

I64_MIN == <<0, 0, 0, HalfBase>>

(***************************************************************************)
(* YamlValue (yaml_value.rs:12-20) and its derived equality                *)
(***************************************************************************)

Null == <<"Null">>

Bool(b) == <<"Bool", b>>

Number(n) == <<"Number", n>>

String(s) == <<"String", s>>

Sequence(xs) == <<"Sequence", xs>>

MappingV(m) == <<"Mapping", m>>

Tag(v) == v[1]

\* Rank of the variant in the enum declaration, the discriminant that the
\* derived PartialOrd compares first.
Discriminant(v) ==
    CASE Tag(v) = "Null" -> 0
      [] Tag(v) = "Bool" -> 1
      [] Tag(v) = "Number" -> 2
      [] Tag(v) = "String" -> 3
      [] Tag(v) = "Sequence" -> 4
      [] Tag(v) = "Mapping" -> 5

RECURSIVE ValueEq(_, _)
RECURSIVE MappingEq(_, _)
RECURSIVE get_index_of(_, _)

\* A lookup that tells keys apart by their stored form, insertion order of
\* a Mapping key included.
get_index_of_stored_form(m, k) ==
    LET hits == {i \in DOMAIN m : m[i][1] = k}
    IN  IF hits = {} THEN 0 ELSE CHOOSE i \in hits : \A j \in hits : i <= j

\* IndexMap::get_index_of: the position of the entry whose key is equivalent
\* (Eq) to k, 0 when there is none.  The hash table lookup finds exactly that
\* entry because Hash is consistent with Eq (Hash for Mapping, mapping.rs:149).
get_index_of(m, k) ==
    LET hits == {i \in DOMAIN m : ValueEq(m[i][1], k)}
    IN  IF hits = {} THEN 0 ELSE CHOOSE i \in hits : \A j \in hits : i <= j

\* Mapping::get.
get(m, k) ==
    LET i == get_index_of(m, k) IN IF i = 0 THEN None ELSE Some(m[i][2])

\* #[derive(PartialEq)] on Mapping: IndexMap's PartialEq, equal lengths and
\* every entry of the left map found in the right one with an equal value.
MappingEq(m, o) ==
    /\ Len(m) = Len(o)
    /\ \A i \in DOMAIN m :
          LET j == get_index_of(o, m[i][1])
          IN  j /= 0 /\ ValueEq(m[i][2], o[j][2])

\* #[derive(PartialEq)] on YamlValue.
ValueEq(a, b) ==
    /\ Tag(a) = Tag(b)
    /\ CASE Tag(a) = "Null" -> TRUE
         [] Tag(a) \in {"Bool", "Number", "String"} -> a[2] = b[2]
         [] Tag(a) = "Sequence" ->
               /\ Len(a[2]) = Len(b[2])
               /\ \A i \in DOMAIN a[2] : ValueEq(a[2][i], b[2][i])
         [] Tag(a) = "Mapping" -> MappingEq(a[2], b[2])

(***************************************************************************)
(* Mapping (mapping.rs:19-137): every method delegates to IndexMap.  Each  *)
(* operator returns [map |-> the entry vector afterwards, ret |-> result]. *)
(***************************************************************************)

\* Mapping::new.
EmptyMapping == <<>>

\* A map that moves an overwritten key to the end of the order.
insert_moving(m, k, v) ==
    LET i == get_index_of(m, k)
    IN  IF i = 0
        THEN [map |-> Append(m, <<k, v>>), ret |-> None]
        ELSE [map |-> Append([j \in 1..(Len(m) - 1) |->
                                 IF j < i THEN m[j] ELSE m[j + 1]],
                             <<m[i][1], v>>),
              ret |-> Some(m[i][2])]

\* Mapping::insert -> IndexMap::insert: an equivalent key keeps its place and
\* its stored key, the value is replaced and the old one returned; a new key
\* is pushed at the end.
insert(m, k, v) ==
    LET i == get_index_of(m, k)
    IN  IF i = 0
        THEN [map |-> Append(m, <<k, v>>), ret |-> None]
        ELSE [map |-> [m EXCEPT ![i] = <<m[i][1], v>>], ret |-> Some(m[i][2])]

contains_key(m, k) == get_index_of(m, k) /= 0

\* A removal that closes the hole by shifting the later entries down.
shift_remove_index(m, i) ==
    [j \in 1..(Len(m) - 1) |-> IF j < i THEN m[j] ELSE m[j + 1]]

\* IndexMap::swap_remove_index: the last entry is moved into the hole.
swap_remove_index(m, i) ==
    LET n == Len(m)
    IN  IF i = n THEN SubSeq(m, 1, n - 1)
        ELSE [j \in 1..(n - 1) |-> IF j = i THEN m[n] ELSE m[j]]

\* Mapping::remove -> IndexMap::remove, which is swap_remove.
remove(m, k) ==
    LET i == get_index_of(m, k)
    IN  IF i = 0 THEN [map |-> m, ret |-> None]
        ELSE [map |-> swap_remove_index(m, i), ret |-> Some(m[i][2])]

len(m) == Len(m)

is_empty(m) == Len(m) = 0

\* Mapping::iter, iter_mut and into_iter: IndexMap's iterators walk the
\* entry vector from the first entry to the last.
iter(m) == [i \in 1..Len(m) |-> <<m[i][1], m[i][2]>>]

Keys(m) == [i \in 1..Len(m) |-> m[i][1]]

\* Mapping::entry: Occupied(position) or Vacant(key).
entry(m, k) ==
    LET i == get_index_of(m, k)
    IN  IF i = 0 THEN <<"Vacant", k>> ELSE <<"Occupied", i>>

\* An or_insert that stores the default over the value of an occupied entry.
or_insert_overwriting(m, e, default) ==
    IF e[1] = "Vacant"
    THEN [map |-> Append(m, <<e[2], default>>), ret |-> <<"Ref", Len(m) + 1>>]
    ELSE [map |-> [m EXCEPT ![e[2]] = <<m[e[2]][1], default>>],
          ret |-> <<"Ref", e[2]>>]

\* Entry::or_insert (or_insert_with with the closure's value): the position
\* of the value the returned reference points to.
or_insert(m, e, default) ==
    IF e[1] = "Vacant"
    THEN [map |-> Append(m, <<e[2], default>>), ret |-> <<"Ref", Len(m) + 1>>]
    ELSE [map |-> m, ret |-> <<"Ref", e[2]>>]

\* Entry::and_modify with a closure that stores nv: only an occupied entry
\* is touched.
and_modify(m, e, nv) ==
    IF e[1] = "Occupied"
    THEN [m EXCEPT ![e[2]] = <<m[e[2]][1], nv>>]
    ELSE m

\* OccupiedEntry::remove -> swap_remove.
occupied_remove(m, e) ==
    [map |-> swap_remove_index(m, e[2]), ret |-> m[e[2]][2]]

\* Extend for Mapping -> IndexMap::extend: insert every pair in turn.
RECURSIVE extend(_, _)
extend(m, pairs) ==
    IF Len(pairs) = 0 THEN m
    ELSE extend(insert(m, pairs[1][1], pairs[1][2]).map, Tail(pairs))

\* FromIterator for Mapping -> IndexMap::from_iter.
from_iter(pairs) == extend(EmptyMapping, pairs)

(***************************************************************************)
(* Hash (yaml_value.rs:435-446, mapping.rs:149-162)                        *)
(*                                                                         *)
(* A Hasher is modelled by the sequence of writes it received.             *)
(* DefaultHasher::finish is taken to be collision free, with digests that  *)
(* are independent under XOR: a u64 obtained by XORing digests is the set  *)
(* of write sequences whose digests it combines (0 is the empty set, and   *)
(* XOR is the symmetric difference, so x ^ x = 0 and x ^ y = y ^ x).       *)
(***************************************************************************)

\* DefaultHasher::finish on a hasher that received `writes`.
Finish(writes) == {writes}

\* u64 ^ u64 on digests.
Xor(x, y) == (x \ y) \cup (y \ x)

RECURSIVE HashWrites(_)
RECURSIVE HashSeqWrites(_)
RECURSIVE EntriesXor(_, _)
RECURSIVE EntriesChained(_, _)

\* A hash that chains the entries in iteration order: each step hashes the
\* accumulator so far together with the next entry.
EntriesChained(m, xor) ==
    IF Len(m) = 0 THEN xor
    ELSE EntriesChained(Tail(m),
                        Finish(<<<<"u64", xor>>>> \o HashWrites(m[1][1])
                                                  \o HashWrites(m[1][2])))

\* The loop of Hash for Mapping: xor ^= the digest of (k, v) hashed by a
\* fresh DefaultHasher, for every entry in iteration order.
EntriesXor(m, xor) ==
    IF Len(m) = 0 THEN xor
    ELSE EntriesXor(Tail(m),
                    Xor(xor, Finish(HashWrites(m[1][1]) \o HashWrites(m[1][2]))))

\* Hash for Vec<YamlValue>: the length, then every element.
HashSeqWrites(xs) ==
    IF Len(xs) = 0 THEN <<>> ELSE HashWrites(xs[1]) \o HashSeqWrites(Tail(xs))

\* Hash for YamlValue: the writes v.hash(state) makes.
HashWrites(v) ==
    CASE Tag(v) = "Null" -> <<<<"i32", 0>>>>
      [] Tag(v) = "Bool" -> <<<<"i32", 1>>, <<"u8", IF v[2] THEN 1 ELSE 0>>>>
      [] Tag(v) = "Number" -> <<<<"i32", 2>>, <<"i64", v[2]>>>>
      [] Tag(v) = "String" -> <<<<"i32", 3>>, <<"bytes", v[2]>>, <<"u8", 255>>>>
      [] Tag(v) = "Sequence" ->
            <<<<"i32", 4>>, <<"usize", Len(v[2])>>>> \o HashSeqWrites(v[2])
      [] Tag(v) = "Mapping" -> <<<<"i32", 5>>, <<"u64", EntriesXor(v[2], {})>>>>

\* Hash for Mapping: xor.hash(state).
MappingHashWrites(m) == <<<<"u64", EntriesXor(m, {})>>>>

\* The hash of a Mapping under a fresh DefaultHasher.
MappingHash(m) == Finish(MappingHashWrites(m))

(***************************************************************************)
(* Ordering (yaml_value.rs:12 derive(PartialOrd), mapping.rs:164-241)      *)
(***************************************************************************)

\* Characters in increasing byte order; a character's rank stands for its
\* byte in comparisons.
AsciiOrder ==
    << "\n", " ", "\"", "+", "-", ".", "0", "1", "2", "3", "4", "5", "6", "7",
       "8", "9", ":", "?", "[", "\\", "]", "a", "b", "c", "e", "f", "i", "l",
       "n", "r", "s", "t", "u", "x", "{", "}", "~" >>

CharCode(c) == CHOOSE i \in DOMAIN AsciiOrder : AsciiOrder[i] = c

\* bool::cmp.
CmpBool(x, y) == IF x = y THEN Equal ELSE IF y THEN Less ELSE Greater

\* usize::cmp on small numbers.
CmpNat(x, y) == IF x < y THEN Less ELSE IF x > y THEN Greater ELSE Equal

\* str::cmp: bytewise lexicographic, a proper prefix is less.
RECURSIVE CmpStr(_, _)
CmpStr(x, y) ==
    IF Len(x) = 0 \/ Len(y) = 0 THEN CmpNat(Len(x), Len(y))
    ELSE IF CharCode(x[1]) < CharCode(y[1]) THEN Less
    ELSE IF CharCode(x[1]) > CharCode(y[1]) THEN Greater
    ELSE CmpStr(Tail(x), Tail(y))

RECURSIVE total_cmp(_, _)
RECURSIVE iter_cmp_by(_, _, _)

\* The comparison closure handed to iter_cmp_by: total_cmp on the elements
\* of two sequences, or on the (key, value) entries of two mappings
\* (total_cmp(ak, bk).then_with(|| total_cmp(av, bv))).
ItemCmp(kind, x, y) ==
    IF kind = "value" THEN total_cmp(x, y)
    ELSE IF total_cmp(x[1], y[1]) /= Equal THEN total_cmp(x[1], y[1])
    ELSE total_cmp(x[2], y[2])

\* iter_cmp_by (mapping.rs:201-231): both iterators are walked in step, in
\* their iteration order.
iter_cmp_by(this, other, kind) ==
    IF Len(this) = 0 THEN (IF Len(other) = 0 THEN Equal ELSE Less)
    ELSE IF Len(other) = 0 THEN Greater
    ELSE IF ItemCmp(kind, this[1], other[1]) /= Equal
         THEN ItemCmp(kind, this[1], other[1])
    ELSE iter_cmp_by(Tail(this), Tail(other), kind)

\* total_cmp (mapping.rs:171-199), arm by arm.
total_cmp(a, b) ==
    IF Tag(a) = "Null" /\ Tag(b) = "Null" THEN Equal
    ELSE IF Tag(a) = "Null" THEN Less
    ELSE IF Tag(b) = "Null" THEN Greater
    ELSE IF Tag(a) = "Bool" /\ Tag(b) = "Bool" THEN CmpBool(a[2], b[2])
    ELSE IF Tag(a) = "Bool" THEN Less
    ELSE IF Tag(b) = "Bool" THEN Greater
    ELSE IF Tag(a) = "Number" /\ Tag(b) = "Number" THEN CmpS(a[2], b[2])
    ELSE IF Tag(a) = "Number" THEN Less
    ELSE IF Tag(b) = "Number" THEN Greater
    ELSE IF Tag(a) = "String" /\ Tag(b) = "String" THEN CmpStr(a[2], b[2])
    ELSE IF Tag(a) = "String" THEN Less
    ELSE IF Tag(b) = "String" THEN Greater
    ELSE IF Tag(a) = "Sequence" /\ Tag(b) = "Sequence"
         THEN iter_cmp_by(a[2], b[2], "value")
    ELSE IF Tag(a) = "Sequence" THEN Less
    ELSE IF Tag(b) = "Sequence" THEN Greater
    ELSE iter_cmp_by(iter(a[2]), iter(b[2]), "entry")

\* <[T]>::sort_by with the key comparator of mapping.rs:236: a stable sort,
\* here by insertion.
RECURSIVE sort_by(_)
sort_by(es) ==
    IF Len(es) = 0 THEN <<>>
    ELSE LET n      == Len(es)
             sorted == sort_by(SubSeq(es, 1, n - 1))
             e      == es[n]
             \* e goes after every element that is not greater than it
             after  == {i \in DOMAIN sorted : total_cmp(sorted[i][1], e[1]) /= Greater}
             pos    == IF after = {} THEN 0
                       ELSE CHOOSE i \in after : \A j \in after : j <= i
         IN  SubSeq(sorted, 1, pos) \o <<e>> \o SubSeq(sorted, pos + 1, n - 1)

RECURSIVE partial_cmp(_, _)
RECURSIVE VecPartialCmp(_, _, _)
RECURSIVE MappingPartialCmp(_, _)

\* PartialOrd for a (key, value) tuple, or for one value.
ItemPartialCmp(kind, x, y) ==
    IF kind = "value" THEN partial_cmp(x, y)
    ELSE IF partial_cmp(x[1], y[1]) /= Some(Equal) THEN partial_cmp(x[1], y[1])
    ELSE partial_cmp(x[2], y[2])

\* PartialOrd for Vec<T>: lexicographic, then by length.
VecPartialCmp(xs, ys, kind) ==
    IF Len(xs) = 0 \/ Len(ys) = 0 THEN Some(CmpNat(Len(xs), Len(ys)))
    ELSE IF ItemPartialCmp(kind, xs[1], ys[1]) /= Some(Equal)
         THEN ItemPartialCmp(kind, xs[1], ys[1])
    ELSE VecPartialCmp(Tail(xs), Tail(ys), kind)

\* PartialOrd for Mapping (mapping.rs:164-240): both entry vectors sorted by
\* key with total_cmp, then compared as vectors of (key, value).
MappingPartialCmp(m, o) ==
    VecPartialCmp(sort_by(iter(m)), sort_by(iter(o)), "entry")

\* #[derive(PartialOrd)] on YamlValue: the variants in declaration order,
\* then the payloads.
partial_cmp(a, b) ==
    IF Tag(a) /= Tag(b) THEN Some(CmpNat(Discriminant(a), Discriminant(b)))
    ELSE CASE Tag(a) = "Null" -> Some(Equal)
           [] Tag(a) = "Bool" -> Some(CmpBool(a[2], b[2]))
           [] Tag(a) = "Number" -> Some(CmpS(a[2], b[2]))
           [] Tag(a) = "String" -> Some(CmpStr(a[2], b[2]))
           [] Tag(a) = "Sequence" -> VecPartialCmp(a[2], b[2], "value")
           [] Tag(a) = "Mapping" -> MappingPartialCmp(a[2], b[2])

(***************************************************************************)
(* f64 and the document model (serde_yaml::Value, serde_yaml::Number)      *)
(*                                                                         *)
(* An f64 is <<"NaN">>, <<"Inf", negative>> or                             *)
(* <<"Fin", negative, integer part, tenths>>: the integer part is an       *)
(* unsigned five-limb vector (2^64 fits) and the fraction is kept to one   *)
(* decimal digit, which is all that truncation and rendering look at.      *)
(* A document node is <<"Value::Null">>, <<"Value::Bool", b>>,             *)
(* <<"Value::Number", n>>, <<"Value::String", s>>,                         *)
(* <<"Value::Sequence", nodes>> or <<"Value::Mapping", entries>>, and a    *)
(* serde_yaml::Number n is <<"PosInt", u64>>, <<"NegInt", i64>> or         *)
(* <<"Float", f64>>.                                                       *)
(***************************************************************************)

NaN == <<"NaN">>

Inf(neg) == <<"Inf", neg>>

Fin(neg, mag, tenths) == <<"Fin", neg, mag, tenths>>

RECURSIVE Pow2(_)
Pow2(e) == IF e = 0 THEN 1 ELSE 2 * Pow2(e - 1)

\* The number of significant bits of a limb.
RECURSIVE BitLen(_)
BitLen(x) == IF x = 0 THEN 0 ELSE 1 + BitLen(x \div 2)

\* Round an unsigned integer below 2^64 to the nearest f64 (53 significant
\* bits, ties to even): what `as f64` does to a u64 or to |i64|.
RoundToF64(mag) ==
    LET bits == 48 + BitLen(mag[4])
        e    == bits - 53
        q    == Pow2(e)
        r    == mag[1] % q
        down == [mag EXCEPT ![1] = mag[1] - r]
        up   == WrapWidth(AddC(down, NatLimbs(q, 5), 0))
    IN  IF e <= 0 THEN mag
        ELSE IF 2 * r < q THEN down
        ELSE IF 2 * r > q THEN up
        ELSE IF (mag[1] \div q) % 2 = 0 THEN down ELSE up

\* i64 as f64 (ToPrimitive::to_f64 for i64).
I64ToF64(n) == Fin(IsNeg(n), RoundToF64(Magnitude(n) \o <<0>>), 0)

\* u64 as f64.
U64ToF64(n) == Fin(FALSE, RoundToF64(n \o <<0>>), 0)

\* f64 as i64: truncation toward zero, saturating at the ends of the range,
\* NaN to 0.
F64ToI64(f) ==
    CASE f[1] = "NaN" -> I64(0)
      [] f[1] = "Inf" -> IF f[2] THEN I64_MIN ELSE I64_MAX
      [] f[1] = "Fin" ->
            LET mag == f[3]
                big == mag[5] /= 0 \/ mag[4] >= HalfBase
            IN  IF f[2]
                THEN (IF big THEN I64_MIN ELSE NegLimbs(SubSeq(mag, 1, 4)))
                ELSE (IF big THEN I64_MAX ELSE SubSeq(mag, 1, 4))

PosInt(n) == <<"PosInt", n>>

NegInt(n) == <<"NegInt", n>>

Float(f) == <<"Float", f>>

\* serde_yaml::Number::from(f64).
NumberFromF64(f) == Float(f)

\* serde_yaml::Number::as_i64.
as_i64(n) ==
    CASE n[1] = "PosInt" -> IF n[2][4] < HalfBase THEN Some(n[2]) ELSE None
      [] n[1] = "NegInt" -> Some(n[2])
      [] n[1] = "Float" -> None

\* serde_yaml::Number::as_f64.
as_f64(n) ==
    CASE n[1] = "PosInt" -> Some(U64ToF64(n[2]))
      [] n[1] = "NegInt" -> Some(I64ToF64(n[2]))
      [] n[1] = "Float" -> Some(n[2])

NodeNull == <<"Value::Null">>

NodeBool(b) == <<"Value::Bool", b>>

NodeNumber(n) == <<"Value::Number", n>>

NodeString(s) == <<"Value::String", s>>

NodeSequence(xs) == <<"Value::Sequence", xs>>

NodeMapping(es) == <<"Value::Mapping", es>>

\* collect::<serde_yaml::Mapping>(): the pairs inserted in turn into an
\* insertion-ordered map keyed by node equality.
RECURSIVE NodeMappingCollect(_, _)
NodeMappingCollect(acc, pairs) ==
    IF Len(pairs) = 0 THEN acc
    ELSE LET k    == pairs[1][1]
             hits == {i \in DOMAIN acc : acc[i][1] = k}
         IN  NodeMappingCollect(
                 IF hits = {} THEN Append(acc, pairs[1])
                 ELSE [i \in DOMAIN acc |->
                          IF i \in hits THEN <<acc[i][1], pairs[1][2]>> ELSE acc[i]],
                 Tail(pairs))

IsPanic(x) == x = Panic

RECURSIVE new(_)

\* The Number arm of YamlValue::new (yaml_value.rs:26-36).
NewNumber(n) ==
    IF as_i64(n) /= None THEN Number(as_i64(n)[2])
    ELSE IF as_f64(n) = None THEN Panic
    ELSE Number(F64ToI64(as_f64(n)[2]))

\* YamlValue::new (yaml_value.rs:23-47); Mapping::from(serde_yaml::Mapping)
\* (mapping.rs:139-147) collects the converted pairs into an IndexMap.
new(node) ==
    CASE node[1] = "Value::Null" -> Null
      [] node[1] = "Value::Number" -> NewNumber(node[2])
      [] node[1] = "Value::Bool" -> Bool(node[2])
      [] node[1] = "Value::String" -> String(node[2])
      [] node[1] = "Value::Sequence" ->
            LET xs == [i \in DOMAIN node[2] |-> new(node[2][i])]
            IN  IF \E i \in DOMAIN xs : IsPanic(xs[i]) THEN Panic
                ELSE Sequence(xs)
      [] node[1] = "Value::Mapping" ->
            LET es == [i \in DOMAIN node[2] |->
                          <<new(node[2][i][1]), new(node[2][i][2])>>]
            IN  IF \E i \in DOMAIN es : IsPanic(es[i][1]) \/ IsPanic(es[i][2])
                THEN Panic
                ELSE MappingV(from_iter(es))

\* The Number arm of From<&YamlValue> for Value (yaml_value.rs:75):
\* Number::from(value.to_f64().unwrap()).
NumberToNode(n) == NodeNumber(NumberFromF64(I64ToF64(n)))

\* From<&YamlValue> for serde_yaml::Value (yaml_value.rs:69-91).
RECURSIVE to_node(_)
to_node(v) ==
    CASE Tag(v) = "Null" -> NodeNull
      [] Tag(v) = "Bool" -> NodeBool(v[2])
      [] Tag(v) = "Number" -> NumberToNode(v[2])
      [] Tag(v) = "String" -> NodeString(v[2])
      [] Tag(v) = "Sequence" ->
            NodeSequence([i \in DOMAIN v[2] |-> to_node(v[2][i])])
      [] Tag(v) = "Mapping" ->
            NodeMapping(NodeMappingCollect(<<>>,
                [i \in DOMAIN v[2] |->
                    <<to_node(iter(v[2])[i][1]), to_node(iter(v[2])[i][2])>>]))

(***************************************************************************)
(* Spec: a Mapping driven through its public operations                    *)
(***************************************************************************)

MaxLen == 3

\* Two Mapping keys holding the same pairs, inserted in opposite orders.
KeyAB == MappingV(<<<<Number(I64(1)), Null>>, <<Number(I64(2)), Null>>>>)

KeyBA == MappingV(<<<<Number(I64(2)), Null>>, <<Number(I64(1)), Null>>>>)

MapKeys == {String(<<"a">>), Number(I64(1)), Sequence(<<Null>>), KeyAB, KeyBA}

MapVals == {Number(I64(0)), String(<<"x">>)}

\* History: the keys in the order of their first insertion, kept while no
\* entry has been removed.
NoteInsert(h, k, gone) ==
    IF gone THEN <<>>
    ELSE IF \E i \in DOMAIN h : ValueEq(h[i], k) THEN h ELSE Append(h, k)

\* The pair lists handed to extend; the second repeats a key under Eq.
ExtendInputs ==
    { <<<<String(<<"a">>), Number(I64(0))>>, <<Number(I64(1)), String(<<"x">>)>>>>,
      <<<<KeyAB, Number(I64(0))>>, <<KeyBA, String(<<"x">>)>>>>,
      <<<<Sequence(<<Null>>), String(<<"x">>)>>>> }

\* The variables of a specification that is not the one running.
MapIdle ==
    /\ map = EmptyMapping
    /\ ret = None
    /\ lastOp = "new"
    /\ firstIns = <<>>
    /\ removed = FALSE

HashIdle == pairSet = {} /\ left = EmptyMapping /\ right = EmptyMapping

CallIdle == args = <<>> /\ result = None /\ called = "none"

Init == MapIdle /\ HashIdle /\ CallIdle

Insert(k, v) ==
    LET r == insert(map, k, v)
    IN  /\ contains_key(map, k) \/ len(map) < MaxLen
        /\ lastOp' = "insert"
        /\ map' = r.map
        /\ ret' = r.ret
        /\ firstIns' = NoteInsert(firstIns, k, removed)
        /\ UNCHANGED <<removed, hashVars, callVars>>

Remove(k) ==
    LET r == remove(map, k)
    IN  /\ map' = r.map
        /\ ret' = r.ret
        /\ lastOp' = "remove"
        /\ removed' = (removed \/ contains_key(map, k))
        /\ firstIns' = IF removed' THEN <<>> ELSE firstIns
        /\ UNCHANGED <<hashVars, callVars>>

\* map.entry(k).or_insert(v), and or_insert_with(|| v); ret is the position
\* of the value the returned reference points to.
EntryOrInsert(k, v) ==
    LET r == or_insert(map, entry(map, k), v)
    IN  /\ contains_key(map, k) \/ len(map) < MaxLen
        /\ map' = r.map
        /\ ret' = r.ret
        /\ lastOp' = "or_insert"
        /\ firstIns' = NoteInsert(firstIns, k, removed)
        /\ UNCHANGED <<removed, hashVars, callVars>>

\* map.entry(k).and_modify(|x| *x = v).
EntryAndModify(k, v) ==
    /\ map' = and_modify(map, entry(map, k), v)
    /\ ret' = <<"Entry", entry(map, k)[1]>>
    /\ lastOp' = "and_modify"
    /\ UNCHANGED <<firstIns, removed, hashVars, callVars>>

\* if let Entry::Occupied(e) = map.entry(k) { e.remove() }.
EntryRemove(k) ==
    LET r == occupied_remove(map, entry(map, k))
    IN  /\ entry(map, k)[1] = "Occupied"
        /\ map' = r.map
        /\ ret' = Some(r.ret)
        /\ lastOp' = "entry_remove"
        /\ removed' = TRUE
        /\ firstIns' = <<>>
        /\ UNCHANGED <<hashVars, callVars>>

\* if let Some(x) = map.get_mut(k) { *x = v }.
GetMut(k, v) ==
    /\ map' = IF contains_key(map, k)
              THEN [map EXCEPT ![get_index_of(map, k)][2] = v]
              ELSE map
    /\ ret' = get(map, k)
    /\ lastOp' = "get_mut"
    /\ UNCHANGED <<firstIns, removed, hashVars, callVars>>

\* for (_, x) in map.iter_mut() { *x = v }.
IterMut(v) ==
    /\ map /= EmptyMapping
    /\ map' = [i \in 1..Len(map) |-> <<iter(map)[i][1], v>>]
    /\ ret' = None
    /\ lastOp' = "iter_mut"
    /\ UNCHANGED <<firstIns, removed, hashVars, callVars>>

RECURSIVE NoteInserts(_, _, _)
NoteInserts(h, pairs, gone) ==
    IF Len(pairs) = 0 THEN h
    ELSE NoteInserts(NoteInsert(h, pairs[1][1], gone), Tail(pairs), gone)

\* map.extend(pairs).
Extend(pairs) ==
    /\ len(extend(map, pairs)) <= MaxLen
    /\ map' = extend(map, pairs)
    /\ ret' = None
    /\ lastOp' = "extend"
    /\ firstIns' = NoteInserts(firstIns, pairs, removed)
    /\ UNCHANGED <<removed, hashVars, callVars>>

Clear ==
    /\ map /= EmptyMapping
    /\ map' = EmptyMapping
    /\ ret' = None
    /\ lastOp' = "clear"
    /\ removed' = TRUE
    /\ firstIns' = <<>>
    /\ UNCHANGED <<hashVars, callVars>>

Next ==
    \/ \E k \in MapKeys, v \in MapVals : Insert(k, v)
    \/ \E k \in MapKeys : Remove(k)
    \/ \E k \in MapKeys, v \in MapVals : EntryOrInsert(k, v)
    \/ \E k \in MapKeys, v \in MapVals : EntryAndModify(k, v)
    \/ \E k \in MapKeys : EntryRemove(k)
    \/ \E k \in MapKeys, v \in MapVals : GetMut(k, v)
    \/ \E v \in MapVals : IterMut(v)
    \/ \E pairs \in ExtendInputs : Extend(pairs)
    \/ Clear

Spec == Init /\ [][Next]_vars

(***************************************************************************)
(* Claims about Mapping's operations, checked under Spec                   *)
(***************************************************************************)

\* What the contract says of insert(k, v), stated on the entry vectors before
\* and after the step.
InsertEffect(k, v) ==
    /\ IF \E i \in DOMAIN map : ValueEq(map[i][1], k)
       THEN \E i \in DOMAIN map :
               /\ ValueEq(map[i][1], k)
               /\ ret' = Some(map[i][2])
               /\ Len(map') = Len(map)
               /\ map'[i] = <<map[i][1], v>>
               /\ \A j \in DOMAIN map : j /= i => map'[j] = map[j]
       ELSE /\ ret' = None
            /\ map' = Append(map, <<k, v>>)
    /\ ~removed' => Keys(iter(map')) = firstIns'

\* C10: with no removal so far, iteration visits the keys in the order of
\* their first insertion; insert of a new key appends it at the end and
\* returns None, insert of an existing key replaces its value in place, keeps
\* the key where it is, leaves every other entry alone and returns the
\* previous value.
C10_InsertKeepsFirstInsertionOrder ==
    [][lastOp' = "insert" =>
          \A k \in MapKeys, v \in MapVals : Insert(k, v) => InsertEffect(k, v)]_vars

\* C10 witness: an insert has overwritten the value of an entry of a full map
\* whose first key is a Mapping, and the order is still that of first
\* insertion.
C10_Witness ==
    /\ lastOp = "insert"
    /\ ret = Some(Number(I64(0)))
    /\ ~removed
    /\ Len(map) = MaxLen
    /\ map[1] = <<KeyAB, String(<<"x">>)>>
    /\ \A i \in DOMAIN map : map[i][2] = String(<<"x">>)
    /\ firstIns = Keys(map)

(***************************************************************************)
(* SpecHash: two Mappings built from one set of pairs in any two orders    *)
(***************************************************************************)

MaxPairs == 3

PairUniverse ==
    { <<Null, Number(I64(0))>>,
      <<Bool(TRUE), KeyBA>>,
      <<Number(I64(1)), Sequence(<<Null, KeyAB>>)>>,
      <<String(<<"a">>), String(<<>>)>>,
      <<Sequence(<<Number(I64(1))>>), Null>>,
      <<KeyAB, Number(I64(0))>>,
      <<KeyBA, Bool(FALSE)>> }

\* The sets of pairs with distinct keys.
PairSets ==
    {S \in SUBSET PairUniverse :
        /\ Cardinality(S) <= MaxPairs
        /\ \A p \in S, q \in S : p /= q => ~ValueEq(p[1], q[1])}

InitHash ==
    /\ pairSet \in PairSets
    /\ left = EmptyMapping
    /\ right = EmptyMapping
    /\ MapIdle
    /\ CallIdle

InsertLeft(p) ==
    /\ ~contains_key(left, p[1])
    /\ left' = insert(left, p[1], p[2]).map
    /\ UNCHANGED <<pairSet, right, mapVars, callVars>>

InsertRight(p) ==
    /\ ~contains_key(right, p[1])
    /\ right' = insert(right, p[1], p[2]).map
    /\ UNCHANGED <<pairSet, left, mapVars, callVars>>

NextHash ==
    \/ \E p \in pairSet : InsertLeft(p)
    \/ \E p \in pairSet : InsertRight(p)

SpecHash == InitHash /\ [][NextHash]_vars

BothBuilt ==
    /\ \A p \in pairSet : contains_key(left, p[1]) /\ contains_key(right, p[1])
    /\ len(left) = Cardinality(pairSet)
    /\ len(right) = Cardinality(pairSet)

\* C1: two Mappings built by inserting the pairs of one set S (distinct
\* keys, nested Sequences and Mappings included) in any two orders are equal
\* and have the same hash.
C1_EqualAndSameHash ==
    BothBuilt =>
        /\ MappingEq(left, right)
        /\ MappingEq(right, left)
        /\ ValueEq(MappingV(left), MappingV(right))
        /\ MappingHash(left) = MappingHash(right)
        /\ Finish(HashWrites(MappingV(left))) = Finish(HashWrites(MappingV(right)))

\* C1 witness: both maps hold all of a full-size S that has a Mapping key and
\* a nested value, and they iterate in different orders.
C1_Witness ==
    /\ BothBuilt
    /\ Cardinality(pairSet) = MaxPairs
    /\ <<KeyAB, Number(I64(0))>> \in pairSet
    /\ <<Number(I64(1)), Sequence(<<Null, KeyAB>>)>> \in pairSet
    /\ iter(left) /= iter(right)
    /\ iter(left)[1] = iter(right)[MaxPairs]

(***************************************************************************)
(* SpecOrd: partial_cmp applied to three values drawn from OrdValues       *)
(***************************************************************************)

KeyAC == MappingV(<<<<Number(I64(1)), Null>>, <<Number(I64(3)), Null>>>>)

\* Two Mappings that hold the same two pairs; their first keys are equal
\* Mappings built in opposite orders.
NestedAB == MappingV(<<<<KeyAB, Null>>, <<KeyAC, Null>>>>)

NestedBA == MappingV(<<<<KeyBA, Null>>, <<KeyAC, Null>>>>)

OrdValues ==
    { Null, Bool(FALSE), Bool(TRUE), Number(I64(-1)), Number(I64(0)),
      Number(I64_MIN), String(<<>>), String(<<"a">>), String(<<"a", "b">>),
      Sequence(<<>>), Sequence(<<Null>>), Sequence(<<KeyBA>>),
      MappingV(EmptyMapping), KeyAB, KeyBA, KeyAC,
      MappingV(<<<<String(<<"a">>), KeyAB>>>>),
      MappingV(<<<<String(<<"a">>), KeyBA>>>>),
      NestedAB, NestedBA }

InitOrd ==
    /\ args \in OrdValues \X OrdValues \X OrdValues
    /\ result = None
    /\ called = "ready"
    /\ MapIdle
    /\ HashIdle

\* a.partial_cmp(&b) and the other pairings of three YamlValues.
CompareValues ==
    /\ called = "ready"
    /\ called' = "YamlValue::partial_cmp"
    /\ result' = [ab |-> partial_cmp(args[1], args[2]),
                  ba |-> partial_cmp(args[2], args[1]),
                  bc |-> partial_cmp(args[2], args[3]),
                  ac |-> partial_cmp(args[1], args[3])]
    /\ UNCHANGED <<args, mapVars, hashVars>>

\* The same on three Mappings, calling Mapping::partial_cmp directly.
CompareMappings ==
    /\ called = "ready"
    /\ \A i \in 1..3 : Tag(args[i]) = "Mapping"
    /\ called' = "Mapping::partial_cmp"
    /\ result' = [ab |-> MappingPartialCmp(args[1][2], args[2][2]),
                  ba |-> MappingPartialCmp(args[2][2], args[1][2]),
                  bc |-> MappingPartialCmp(args[2][2], args[3][2]),
                  ac |-> MappingPartialCmp(args[1][2], args[3][2])]
    /\ UNCHANGED <<args, mapVars, hashVars>>

NextOrd == CompareValues \/ CompareMappings

SpecOrd == InitOrd /\ [][NextOrd]_vars

\* C2: for Mappings a, a2 holding the same pairs (a == a2) and any Mapping
\* b, partial_cmp(a, a2) is Equal and partial_cmp(a, b) = partial_cmp(a2, b),
\* also when keys or values are Mappings built in different orders.  Here
\* args = <<a, a2, b>>.
C2_OrderIgnoresInsertionOrder ==
    (called = "Mapping::partial_cmp" /\ MappingEq(args[1][2], args[2][2])) =>
        /\ result.ab = Some(Equal)
        /\ result.ac = result.bc

\* C3: partial_cmp on YamlValue is a total order consistent with equality:
\* never None, Equal exactly when ==, asymmetric, transitive, and the
\* variants rank Null < Bool < Number < String < Sequence < Mapping.
C3_TotalOrder ==
    called = "YamlValue::partial_cmp" =>
        /\ result.ab /= None
        /\ (result.ab = Some(Equal)) <=> ValueEq(args[1], args[2])
        /\ result.ab = Some(Less) => result.ba /= Some(Less)
        /\ (result.ab = Some(Less) /\ result.bc = Some(Less)) =>
              result.ac = Some(Less)
        /\ Discriminant(args[1]) < Discriminant(args[2]) =>
              result.ab = Some(Less)
        /\ partial_cmp(Null, Bool(FALSE)) = Some(Less)
        /\ partial_cmp(Bool(FALSE), Number(I64(-1))) = Some(Less)
        /\ partial_cmp(Number(I64(-1)), Number(I64(0))) = Some(Less)
        /\ partial_cmp(Number(I64(0)), String(<<>>)) = Some(Less)
        /\ partial_cmp(String(<<>>), Sequence(<<>>)) = Some(Less)
        /\ partial_cmp(Sequence(<<>>), MappingV(EmptyMapping)) = Some(Less)

(***************************************************************************)
(* SpecConv: construction from document nodes and the way back             *)
(***************************************************************************)

TwoPow31 == <<0, HalfBase, 0, 0>>

TwoPow53 == <<0, 0, 0, 32>>

TwoPow63 == <<0, 0, 0, HalfBase>>

U64_MAX == <<Base - 1, Base - 1, Base - 1, Base - 1>>

ConvInts ==
    { I64(0), I64(1), I64(-1), I64(42), TwoPow31, TwoPow53,
      <<1, 0, 0, 32>>, <<2, 0, 0, 32>>, NegLimbs(<<1, 0, 0, 32>>),
      I64_MAX, <<Base - 2, Base - 1, Base - 1, HalfBase - 1>>, I64_MIN }

ConvValues ==
    UNION { { Number(n),
              Sequence(<<Number(n), Null>>),
              MappingV(<<<<String(<<"a">>), Number(n)>>>>),
              MappingV(<<<<Number(n), Bool(TRUE)>>>>) } : n \in ConvInts }
    \cup { Null, Bool(FALSE), String(<<"a", "b">>), Sequence(<<>>),
           MappingV(EmptyMapping), KeyAB, KeyBA, NestedAB,
           MappingV(<<<<Number(TwoPow53), Null>>, <<Number(<<1, 0, 0, 32>>), Null>>>>) }

ConvNumbers ==
    { PosInt(I64(0)), PosInt(I64(42)), PosInt(I64_MAX), PosInt(TwoPow63),
      PosInt(U64_MAX), NegInt(I64(-1)), NegInt(I64_MIN),
      Float(NaN), Float(Inf(FALSE)), Float(Inf(TRUE)),
      Float(Fin(FALSE, NatLimbs(2, 5), 7)), Float(Fin(TRUE, NatLimbs(2, 5), 7)),
      Float(Fin(FALSE, NatLimbs(2, 5), 0)),
      Float(Fin(FALSE, TwoPow63 \o <<0>>, 0)), Float(Fin(TRUE, TwoPow63 \o <<0>>, 0)),
      Float(Fin(FALSE, <<0, 0, 0, 0, 1>>, 0)), Float(Fin(TRUE, <<0, 0, 0, 0, 1>>, 0)) }

ConvNodes ==
    UNION { { NodeNumber(n),
              NodeSequence(<<NodeNumber(n)>>),
              NodeMapping(<<<<NodeString(<<"a">>), NodeNumber(n)>>>>) } :
            n \in ConvNumbers }
    \cup { NodeNull, NodeBool(TRUE), NodeString(<<"x">>),
           NodeMapping(<<<<NodeString(<<"a">>),
                           NodeSequence(<<NodeNumber(PosInt(I64(1))),
                                          NodeNumber(PosInt(I64(2)))>>)>>,
                         <<NodeString(<<"b">>), NodeString(<<"x">>)>>>>),
           NodeMapping(<<<<NodeString(<<"b">>), NodeNull>>,
                         <<NodeString(<<"a">>), NodeBool(FALSE)>>,
                         <<NodeNumber(PosInt(I64(1))), NodeSequence(<<>>)>>>>),
           NodeMapping(<<<<NodeNumber(PosInt(I64(1))), NodeString(<<"a">>)>>,
                         <<NodeNumber(Float(Fin(FALSE, NatLimbs(1, 5), 5))),
                           NodeString(<<"b">>)>>>>),
           NodeMapping(<<<<NodeMapping(<<<<NodeNumber(PosInt(I64(1))), NodeNull>>,
                                         <<NodeNumber(PosInt(I64(2))), NodeNull>>>>),
                           NodeString(<<"a">>)>>,
                         <<NodeMapping(<<<<NodeNumber(PosInt(I64(2))), NodeNull>>,
                                         <<NodeNumber(PosInt(I64(1))), NodeNull>>>>),
                           NodeString(<<"b">>)>>>>) }

InitConv ==
    /\ args \in ({"value"} \X ConvValues) \cup ({"node"} \X ConvNodes)
    /\ result = None
    /\ called = "ready"
    /\ MapIdle
    /\ HashIdle

\* YamlValue::new(node).
Construct ==
    /\ called = "ready"
    /\ args[1] = "node"
    /\ called' = "new"
    /\ result' = new(args[2])
    /\ UNCHANGED <<args, mapVars, hashVars>>

\* YamlValue::new(serde_yaml::Value::from(&v)).
RoundTrip ==
    /\ called = "ready"
    /\ args[1] = "value"
    /\ called' = "roundtrip"
    /\ result' = new(to_node(args[2]))
    /\ UNCHANGED <<args, mapVars, hashVars>>

NextConv == Construct \/ RoundTrip

SpecConv == InitConv /\ [][NextConv]_vars

\* C4: for every Value v, Number(n) for every i64 n included,
\* YamlValue::new(Value::from(&v)) is a Value equal to v.
C4_RoundTrip ==
    called = "roundtrip" => (~IsPanic(result) /\ ValueEq(result, args[2]))

\* A number node that is no i64, neither exactly nor through the truncation
\* of its float form: an unsigned integer above i64::MAX, NaN, an infinity,
\* or a float whose integer part lies outside [-2^63, 2^63 - 1].
Unrepresentable(n) ==
    CASE n[1] = "PosInt" -> n[2][4] >= HalfBase
      [] n[1] = "NegInt" -> FALSE
      [] n[1] = "Float" ->
            \/ n[2][1] \in {"NaN", "Inf"}
            \/ /\ n[2][1] = "Fin"
               /\ IF n[2][2]
                  THEN CmpU(n[2][3], TwoPow63 \o <<0>>) = Greater
                  ELSE CmpU(n[2][3], TwoPow63 \o <<0>>) /= Less

\* C5: construction from a number node that is not representable as an i64
\* fails fatally and never yields a Number with a clamped or substituted
\* value.
C5_UnrepresentableNumberIsFatal ==
    (called = "new" /\ args[2][1] = "Value::Number" /\ Unrepresentable(args[2][2])) =>
        IsPanic(result)


(***************************************************************************)
(* Text: decimal digits, str::parse, and serde_yaml::to_string             *)
(***************************************************************************)

Digits == <<"0", "1", "2", "3", "4", "5", "6", "7", "8", "9">>

IsDigit(c) == \E i \in DOMAIN Digits : Digits[i] = c

DigitVal(c) == (CHOOSE i \in DOMAIN Digits : Digits[i] = c) - 1

DigitChar(d) == Digits[d + 1]

AllDigits(s) == \A i \in DOMAIN s : IsDigit(s[i])

\* The first position of c in s, or 0.
IndexOf(s, c) ==
    IF \E i \in DOMAIN s : s[i] = c
    THEN CHOOSE i \in DOMAIN s : s[i] = c /\ \A j \in 1..(i - 1) : s[j] /= c
    ELSE 0

\* The decimal digits of an unsigned limb vector, most significant first
\* (Display for u64 and for the magnitude of an i64).
RECURSIVE DecimalDigits(_)
DecimalDigits(x) ==
    LET qr == DivSmall(x, 10, 0)
    IN  IF qr[1] = ZeroLimbs(Len(x)) THEN <<DigitChar(qr[2])>>
        ELSE Append(DecimalDigits(qr[1]), DigitChar(qr[2]))

\* Display for i64.
I64Text(n) ==
    (IF IsNeg(n) THEN <<"-">> ELSE <<>>) \o DecimalDigits(Magnitude(n))

\* The unsigned value of a digit string, accumulated on the width of acc
\* (wrapping; callers stay below the width).
RECURSIVE FromDigits(_, _)
FromDigits(ds, acc) ==
    IF Len(ds) = 0 THEN acc
    ELSE FromDigits(Tail(ds), WrapWidth(MulSmall(acc, 10, DigitVal(ds[1]))))

RECURSIVE Scale10(_, _)
Scale10(x, p) ==
    IF p = 0 THEN x ELSE Scale10(WrapWidth(MulSmall(x, 10, 0)), p - 1)

\* ds rounded to its k leading digits, as a value.
RoundDigits(ds, k) ==
    LET head == FromDigits(SubSeq(ds, 1, k), ZeroLimbs(5))
        up   == k < Len(ds) /\ DigitVal(ds[k + 1]) >= 5
        r    == IF up THEN WrapWidth(AddC(head, NatLimbs(1, 5), 0)) ELSE head
    IN  Scale10(r, Len(ds) - k)

\* dtoa::write for an integer-valued f64 below 2^64: the fewest significant
\* digits that read back as the same f64, zero padded.
ShortestDigits(mag) ==
    LET ds == DecimalDigits(mag)
        ks == {k \in 1..Len(ds) :
                  LET c == RoundDigits(ds, k)
                  IN  c = mag \/ (c[5] = 0 /\ RoundToF64(c) = mag)}
        k  == CHOOSE k \in ks : \A j \in ks : k <= j
    IN  DecimalDigits(RoundDigits(ds, k))

\* serde_yaml's Serializer::serialize_f64: ".nan", ".inf", "-.inf", else the
\* dtoa text, which always carries a fractional part.
F64Text(f) ==
    CASE f[1] = "NaN" -> <<".", "n", "a", "n">>
      [] f[1] = "Inf" ->
            (IF f[2] THEN <<"-">> ELSE <<>>) \o <<".", "i", "n", "f">>
      [] f[1] = "Fin" ->
            (IF f[2] THEN <<"-">> ELSE <<>>) \o ShortestDigits(f[3])
                \o <<".", DigitChar(f[4])>>

\* The scalar text of a number node.
NumberText(n) ==
    CASE n[1] = "PosInt" -> DecimalDigits(n[2])
      [] n[1] = "NegInt" -> I64Text(n[2])
      [] n[1] = "Float" -> F64Text(n[2])

Ok(x) == <<"Ok", x>>

Err == <<"Err">>

\* A digit loop that wraps around instead of reporting an overflow.
RECURSIVE ParseDigits_wrapping(_, _, _, _)
ParseDigits_wrapping(ds, acc, neg, signed) ==
    IF Len(ds) = 0 THEN Ok(IF neg THEN NegLimbs(acc) ELSE acc)
    ELSE IF ~IsDigit(ds[1]) THEN Err
    ELSE ParseDigits_wrapping(Tail(ds),
             WrapWidth(MulSmall(acc, 10, DigitVal(ds[1]))), neg, signed)

\* The digit loop of core::num's from_str_radix with checked arithmetic: acc
\* is the magnitude so far; a positive value that leaves the range, or a
\* negative one below the minimum, is an error.
RECURSIVE ParseDigits(_, _, _, _)
ParseDigits(ds, acc, neg, signed) ==
    IF Len(ds) = 0 THEN Ok(IF neg THEN NegLimbs(acc) ELSE acc)
    ELSE IF ~IsDigit(ds[1]) THEN Err
    ELSE LET m    == MulSmall(acc, 10, DigitVal(ds[1]))
             mag  == WrapWidth(m)
             over == \/ m[Len(m)] /= 0
                     \/ signed /\ ~neg /\ IsNeg(mag)
                     \/ signed /\ neg /\ IsNeg(mag) /\ NegLimbs(mag) /= mag
         IN  IF over THEN Err ELSE ParseDigits(Tail(ds), mag, neg, signed)

\* <iN as FromStr>::from_str / <uN as FromStr>::from_str on w limbs: an
\* optional '+', a '-' for signed types only, then at least one digit; no
\* trimming.
ParseInt(s, signed, w) ==
    IF Len(s) = 0 THEN Err
    ELSE IF s = <<"+">> \/ s = <<"-">> THEN Err
    ELSE IF s[1] = "+" THEN ParseDigits(Tail(s), ZeroLimbs(w), FALSE, signed)
    ELSE IF s[1] = "-" /\ signed
         THEN ParseDigits(Tail(s), ZeroLimbs(w), TRUE, signed)
    ELSE ParseDigits(s, ZeroLimbs(w), FALSE, signed)

\* <bool as FromStr>::from_str.
ParseBool(s) ==
    IF s = <<"t", "r", "u", "e">> THEN Ok(TRUE)
    ELSE IF s = <<"f", "a", "l", "s", "e">> THEN Ok(FALSE)
    ELSE Err

\* The grammar of <f64 as FromStr>::from_str over the alphabet of the
\* model: [sign] ("inf" | "nan" | digits ['.' digits] | '.' digits) with an
\* optional exponent 'e' [sign] digits.
IsF64Literal(s) ==
    LET body == IF Len(s) > 0 /\ s[1] \in {"+", "-"} THEN Tail(s) ELSE s
        e    == IndexOf(body, "e")
        man  == IF e = 0 THEN body ELSE SubSeq(body, 1, e - 1)
        ex   == IF e = 0 THEN <<>> ELSE SubSeq(body, e + 1, Len(body))
        exd  == IF Len(ex) > 0 /\ ex[1] \in {"+", "-"} THEN Tail(ex) ELSE ex
        dot  == IndexOf(man, ".")
        ip   == IF dot = 0 THEN man ELSE SubSeq(man, 1, dot - 1)
        fp   == IF dot = 0 THEN <<>> ELSE SubSeq(man, dot + 1, Len(man))
    IN  \/ body = <<"i", "n", "f">>
        \/ body = <<"n", "a", "n">>
        \/ /\ AllDigits(ip)
           /\ AllDigits(fp)
           /\ Len(ip) + Len(fp) > 0
           /\ e /= 0 => (Len(exd) > 0 /\ AllDigits(exd))

\* <f64 as FromStr>::from_str.  A plain decimal with at most 19 integer
\* digits gets its value (integer part rounded to 53 bits, first fractional
\* digit); the other literals stand for themselves.
ParseF64(s) ==
    LET neg  == Len(s) > 0 /\ s[1] = "-"
        body == IF Len(s) > 0 /\ s[1] \in {"+", "-"} THEN Tail(s) ELSE s
        dot  == IndexOf(body, ".")
        ip   == IF dot = 0 THEN body ELSE SubSeq(body, 1, dot - 1)
        fp   == IF dot = 0 THEN <<>> ELSE SubSeq(body, dot + 1, Len(body))
    IN  IF ~IsF64Literal(s) THEN Err
        ELSE IF body = <<"i", "n", "f">> THEN Ok(Inf(neg))
        ELSE IF body = <<"n", "a", "n">> THEN Ok(NaN)
        ELSE IF IndexOf(body, "e") = 0 /\ Len(ip) <= 19
             THEN Ok(Fin(neg, RoundToF64(FromDigits(ip, ZeroLimbs(5))),
                         IF Len(fp) = 0 THEN 0 ELSE DigitVal(fp[1])))
        ELSE Ok(<<"Lit", s>>)

\* yaml-rust's need_quotes, over the alphabet of the model.
need_quotes(s) ==
    \/ s = <<>>
    \/ s[1] = " "
    \/ s[Len(s)] = " "
    \/ s[1] \in {"-", "?"}
    \/ \E i \in DOMAIN s : s[i] \in {":", "{", "}", "[", "]", "\"", "\\", "\n"}
    \/ s \in { <<"t", "r", "u", "e">>, <<"f", "a", "l", "s", "e">>,
               <<"n", "u", "l", "l">>, <<"~">> }
    \/ s[1] = "."
    \/ Len(s) >= 2 /\ s[1] = "0" /\ s[2] = "x"
    \/ ParseInt(s, TRUE, 4) /= Err
    \/ ParseF64(s) /= Err

\* yaml-rust's escape_str: the string in double quotes.
RECURSIVE EscapeChars(_)
EscapeChars(s) ==
    IF Len(s) = 0 THEN <<>>
    ELSE (CASE s[1] = "\"" -> <<"\\", "\"">>
            [] s[1] = "\\" -> <<"\\", "\\">>
            [] s[1] = "\n" -> <<"\\", "n">>
            [] OTHER -> <<s[1]>>) \o EscapeChars(Tail(s))

escape_str(s) == <<"\"">> \o EscapeChars(s) \o <<"\"">>

\* YamlEmitter::write_indent with best_indent = 2.
write_indent(level) == IF level <= 0 THEN <<>> ELSE [i \in 1..(2 * level) |-> " "]

IsCollection(node) == node[1] \in {"Value::Sequence", "Value::Mapping"}

RECURSIVE emit_node(_, _)
RECURSIVE emit_val(_, _, _)
RECURSIVE emit_items(_, _, _)
RECURSIVE emit_entries(_, _, _)

\* YamlEmitter::emit_node; level is the emitter's level on entry.
emit_node(node, level) ==
    CASE node[1] = "Value::Null" -> <<"~">>
      [] node[1] = "Value::Bool" ->
            IF node[2] THEN <<"t", "r", "u", "e">> ELSE <<"f", "a", "l", "s", "e">>
      [] node[1] = "Value::Number" -> NumberText(node[2])
      [] node[1] = "Value::String" ->
            IF need_quotes(node[2]) THEN escape_str(node[2]) ELSE node[2]
      [] node[1] = "Value::Sequence" ->
            IF Len(node[2]) = 0 THEN <<"[", "]">>
            ELSE emit_items(node[2], 1, level + 1)
      [] node[1] = "Value::Mapping" ->
            IF Len(node[2]) = 0 THEN <<"{", "}">>
            ELSE emit_entries(node[2], 1, level + 1)

\* YamlEmitter::emit_val with compact = true.
emit_val(inline, val, level) ==
    IF IsCollection(val)
    THEN (IF inline \/ Len(val[2]) = 0 THEN <<" ">>
          ELSE <<"\n">> \o write_indent(level + 1)) \o emit_node(val, level)
    ELSE <<" ">> \o emit_node(val, level)

\* The loop of YamlEmitter::emit_array from item i on.
emit_items(v, i, level) ==
    IF i > Len(v) THEN <<>>
    ELSE (IF i > 1 THEN <<"\n">> \o write_indent(level) ELSE <<>>)
            \o <<"-">> \o emit_val(TRUE, v[i], level)
            \o emit_items(v, i + 1, level)

\* The loop of YamlEmitter::emit_hash from entry i on.
emit_entries(h, i, level) ==
    IF i > Len(h) THEN <<>>
    ELSE (IF i > 1 THEN <<"\n">> \o write_indent(level) ELSE <<>>)
            \o (IF IsCollection(h[i][1])
                THEN <<"?">> \o emit_val(TRUE, h[i][1], level)
                        \o <<"\n">> \o write_indent(level)
                        \o <<":">> \o emit_val(TRUE, h[i][2], level)
                ELSE emit_node(h[i][1], level)
                        \o <<":">> \o emit_val(FALSE, h[i][2], level))
            \o emit_entries(h, i + 1, level)

\* serde_yaml::to_string: the document marker, the emitted node, a newline.
serde_to_string(node) ==
    Ok(<<"-", "-", "-", "\n">> \o emit_node(node, -1) \o <<"\n">>)

\* impl ToString for YamlValue (yaml_value.rs:54-61).
to_string(v) ==
    LET r == serde_to_string(to_node(v))
    IN  IF r = Err THEN Panic ELSE r[2]


(***************************************************************************)
(* parse<T>: the TryFrom<&YamlValue> impls                                 *)
(***************************************************************************)

\* A target type T is <<"i64">>, <<"i32">>, <<"u64">>, <<"u32">>, <<"f64">>,
\* <<"bool">>, <<"String">>, <<"Vec", T>> or <<"Tuple", <<T, U, ...>>>>.

\* `value.parse().unwrap_or_else(|_| panic!(...))` on a typed result.
ParsedOrPanic(r, ty) == IF r = Err THEN Panic ELSE Ok(<<ty, r[2]>>)

\* `*value as iN` / `as uN`: the low w limbs.
CastLimbs(n, w) == SubSeq(n, 1, w)

\* TryFrom<&YamlValue> for i64, i32, u64 and u32 (yaml_value.rs:93-121 and
\* 138-166): the four impls differ in the target type only.
TryFromInteger(v, ty, signed, w) ==
    CASE Tag(v) = "Number" -> Ok(<<ty, CastLimbs(v[2], w)>>)
      [] Tag(v) = "String" -> ParsedOrPanic(ParseInt(v[2], signed, w), ty)
      [] Tag(v) = "Bool" -> Ok(<<ty, NatLimbs(IF v[2] THEN 1 ELSE 0, w)>>)
      [] OTHER -> Err

try_from_f64(v) ==
    CASE Tag(v) = "Number" -> Ok(<<"f64", I64ToF64(v[2])>>)
      [] Tag(v) = "String" -> ParsedOrPanic(ParseF64(v[2]), "f64")
      [] Tag(v) = "Bool" ->
            Ok(<<"f64", Fin(FALSE, NatLimbs(IF v[2] THEN 1 ELSE 0, 5), 0)>>)
      [] OTHER -> Err

\* Every variant is serialized; nothing is refused.
try_from_String(v) ==
    LET r == serde_to_string(to_node(v))
    IN  IF r = Err THEN Err ELSE Ok(<<"String", r[2]>>)

try_from_bool(v) ==
    CASE Tag(v) = "Number" -> Ok(<<"bool", v[2] /= I64(0)>>)
      [] Tag(v) = "String" -> ParsedOrPanic(ParseBool(v[2]), "bool")
      [] Tag(v) = "Bool" -> Ok(<<"bool", v[2]>>)
      [] OTHER -> Err

RECURSIVE try_from(_, _)

\* Vec<T>: each element's failure is unwrapped into a panic.
try_from_Vec(t, v) ==
    IF Tag(v) /= "Sequence" THEN Err
    ELSE LET rs == [i \in DOMAIN v[2] |-> try_from(t, v[2][i])]
         IN  IF \E i \in DOMAIN rs : rs[i] = Err \/ rs[i] = Panic THEN Panic
             ELSE Ok(<<"Vec", [i \in DOMAIN rs |-> rs[i][2]]>>)

\* (T, U), (T, U, V), (T, U, V, W): a missing element and an element's
\* failure are both unwrapped into a panic; extra elements are ignored.
try_from_Tuple(ts, v) ==
    IF Tag(v) /= "Sequence" THEN Err
    ELSE IF Len(v[2]) < Len(ts) THEN Panic
    ELSE LET rs == [i \in DOMAIN ts |-> try_from(ts[i], v[2][i])]
         IN  IF \E i \in DOMAIN rs : rs[i] = Err \/ rs[i] = Panic THEN Panic
             ELSE Ok(<<"Tuple", [i \in DOMAIN rs |-> rs[i][2]]>>)

\* T::try_from(value), dispatched on T.
try_from(t, v) ==
    CASE t = <<"i64">> -> TryFromInteger(v, "i64", TRUE, 4)
      [] t = <<"i32">> -> TryFromInteger(v, "i32", TRUE, 2)
      [] t = <<"u64">> -> TryFromInteger(v, "u64", FALSE, 4)
      [] t = <<"u32">> -> TryFromInteger(v, "u32", FALSE, 2)
      [] t = <<"f64">> -> try_from_f64(v)
      [] t = <<"bool">> -> try_from_bool(v)
      [] t = <<"String">> -> try_from_String(v)
      [] t[1] = "Vec" -> try_from_Vec(t[2], v)
      [] t[1] = "Tuple" -> try_from_Tuple(t[2], v)

\* YamlValue::parse (yaml_value.rs:49-51): T::try_from(self).ok().
parse(t, v) ==
    LET r == try_from(t, v)
    IN  IF r = Panic THEN Panic ELSE IF r = Err THEN None ELSE Some(r[2])

(***************************************************************************)
(* SpecParse: parse<T> and to_string applied to one value                  *)
(***************************************************************************)

\* Decimal literals with their sign and magnitude (five limbs).
IntLiterals ==
    {
      <<<<"0">>, "", <<0, 0, 0, 0, 0>>>>,
      <<<<"4", "2">>, "", <<42, 0, 0, 0, 0>>>>,
      <<<<"+", "4", "2">>, "+", <<42, 0, 0, 0, 0>>>>,
      <<<<"-", "4", "2">>, "-", <<42, 0, 0, 0, 0>>>>,
      <<<<"-", "1">>, "-", <<1, 0, 0, 0, 0>>>>,
      <<<<"-", "0">>, "-", <<0, 0, 0, 0, 0>>>>,
      <<<<"0", "0", "7">>, "", <<7, 0, 0, 0, 0>>>>,
      <<<<"6", "5", "5", "3", "6">>, "", <<0, 1, 0, 0, 0>>>>,
      <<<<"2", "1", "4", "7", "4", "8", "3", "6", "4", "7">>, "", <<65535, 32767, 0, 0, 0>>>>,
      <<<<"2", "1", "4", "7", "4", "8", "3", "6", "4", "8">>, "", <<0, 32768, 0, 0, 0>>>>,
      <<<<"-", "2", "1", "4", "7", "4", "8", "3", "6", "4", "8">>, "-", <<0, 32768, 0, 0, 0>>>>,
      <<<<"-", "2", "1", "4", "7", "4", "8", "3", "6", "4", "9">>, "-", <<1, 32768, 0, 0, 0>>>>,
      <<<<"4", "2", "9", "4", "9", "6", "7", "2", "9", "5">>, "", <<65535, 65535, 0, 0, 0>>>>,
      <<<<"4", "2", "9", "4", "9", "6", "7", "2", "9", "6">>, "", <<0, 0, 1, 0, 0>>>>,
      <<<<"9", "2", "2", "3", "3", "7", "2", "0", "3", "6", "8", "5", "4", "7", "7", "5", "8", "0", "7">>, "", <<65535, 65535, 65535, 32767, 0>>>>,
      <<<<"9", "2", "2", "3", "3", "7", "2", "0", "3", "6", "8", "5", "4", "7", "7", "5", "8", "0", "8">>, "", <<0, 0, 0, 32768, 0>>>>,
      <<<<"-", "9", "2", "2", "3", "3", "7", "2", "0", "3", "6", "8", "5", "4", "7", "7", "5", "8", "0", "8">>, "-", <<0, 0, 0, 32768, 0>>>>,
      <<<<"-", "9", "2", "2", "3", "3", "7", "2", "0", "3", "6", "8", "5", "4", "7", "7", "5", "8", "0", "9">>, "-", <<1, 0, 0, 32768, 0>>>>,
      <<<<"1", "8", "4", "4", "6", "7", "4", "4", "0", "7", "3", "7", "0", "9", "5", "5", "1", "6", "1", "5">>, "", <<65535, 65535, 65535, 65535, 0>>>>,
      <<<<"1", "8", "4", "4", "6", "7", "4", "4", "0", "7", "3", "7", "0", "9", "5", "5", "1", "6", "1", "6">>, "", <<0, 0, 0, 0, 1>>>>,
      <<<<"9", "9", "9", "9", "9", "9", "9", "9", "9", "9", "9", "9", "9", "9", "9", "9", "9", "9", "9", "9">>, "", <<65535, 25359, 24109, 27591, 5>>>> }

\* Strings that are no integer literal.
OtherStrings ==
    {
      <<>>,
      <<"a", "b", "c">>,
      <<" ", "4", "2">>,
      <<"4", "2", " ">>,
      <<"+">>,
      <<"-">>,
      <<"1", ".", "5">>,
      <<"+", "-", "1">>,
      <<"1", "e", "2">>,
      <<"0", "x", "1", "a">>,
      <<"t", "r", "u", "e">>,
      <<"f", "a", "l", "s", "e">>,
      <<"x">>,
      <<"a", " ", "b">>,
      <<"a", ":", " ", "b">>,
      <<".", "5">>,
      <<"n", "a", "n">>,
      <<"~">> }

ParseStrings == {lit[1] : lit \in IntLiterals} \cup OtherStrings

ParseInts ==
    { I64(0), I64(1), I64(-1), I64(42), I64(-42), TwoPow31, NegLimbs(TwoPow31),
      <<5, 0, 1, 0>>, <<Base - 1, Base - 1, 0, 0>>, TwoPow53, I64_MAX, I64_MIN }

ParseValues ==
    { Null, Bool(TRUE), Bool(FALSE) }
    \cup { Number(n) : n \in ParseInts }
    \cup { String(s) : s \in ParseStrings }
    \cup { Sequence(<<>>), Sequence(<<Null>>),
           Sequence(<<Number(I64(1)), Number(I64(2))>>),
           Sequence(<<Number(I64(1)), Null>>),
           Sequence(<<Number(I64(1)), String(<<"a", "b", "c">>)>>),
           Sequence(<<Bool(TRUE), String(<<"4", "2">>), Number(I64(0))>>),
           Sequence(<<Number(I64(1)), Number(I64(2)), Number(I64(-1)),
                      Number(I64(0)), Number(I64(42))>>),
           Sequence(<<Sequence(<<Number(I64(1))>>), Sequence(<<>>)>>),
           Sequence(<<Sequence(<<Number(I64(1)), Number(I64(2))>>),
                      Sequence(<<Number(I64(1)), KeyAB>>)>>),
           Sequence(<<KeyAB>>),
           MappingV(EmptyMapping), KeyAB,
           MappingV(<<<<String(<<"a">>),
                        Sequence(<<Number(I64(1)), Number(I64(2))>>)>>,
                      <<String(<<"b">>), String(<<"x">>)>>>>) }

ParseTypes ==
    { <<"i64">>, <<"i32">>, <<"u64">>, <<"u32">>, <<"f64">>, <<"bool">>,
      <<"String">>,
      <<"Vec", <<"i64">>>>, <<"Vec", <<"bool">>>>, <<"Vec", <<"String">>>>,
      <<"Vec", <<"Vec", <<"i64">>>>>>,
      <<"Tuple", <<<<"i64">>, <<"i64">>>>>>,
      <<"Tuple", <<<<"i64">>, <<"bool">>, <<"u32">>>>>>,
      <<"Tuple", <<<<"i64">>, <<"i64">>, <<"i64">>, <<"i64">>>>>>,
      <<"Vec", <<"Tuple", <<<<"i64">>, <<"i64">>>>>>>> }

InitParse ==
    /\ args \in ParseTypes \X ParseValues
    /\ result = None
    /\ called = "ready"
    /\ MapIdle
    /\ HashIdle

\* value.parse::<T>().
Parse ==
    /\ called = "ready"
    /\ called' = "parse"
    /\ result' = parse(args[1], args[2])
    /\ UNCHANGED <<args, mapVars, hashVars>>

\* value.to_string().
CallToString ==
    /\ called = "ready"
    /\ called' = "to_string"
    /\ result' = to_string(args[2])
    /\ UNCHANGED <<args, mapVars, hashVars>>

NextParse == Parse \/ CallToString

SpecParse == InitParse /\ [][NextParse]_vars

IsScalarTarget(t) == t \in {<<"i64">>, <<"i32">>, <<"u64">>, <<"u32">>, <<"f64">>, <<"bool">>}

\* The variant of v, or of an element of v converted to an element type, is
\* structurally incompatible with the target t.
RECURSIVE ShapeMismatch(_, _)
ShapeMismatch(t, v) ==
    CASE IsScalarTarget(t) -> Tag(v) \in {"Null", "Sequence", "Mapping"}
      [] t = <<"String">> -> FALSE
      [] t[1] = "Vec" ->
            \/ Tag(v) /= "Sequence"
            \/ \E i \in DOMAIN v[2] : ShapeMismatch(t[2], v[2][i])
      [] t[1] = "Tuple" ->
            \/ Tag(v) /= "Sequence"
            \/ \E i \in DOMAIN t[2] :
                  i <= Len(v[2]) /\ ShapeMismatch(t[2][i], v[2][i])

\* C6: whenever the variant of v, or of an element of v that is converted to
\* an element type, is structurally incompatible with the target of
\* parse<T>, parse returns None and does not terminate fatally.
C6_ShapeMismatchReturnsNone ==
    (called = "parse" /\ ShapeMismatch(args[1], args[2])) => result = None

\* C7: parse::<String> gives the decimal text of n for Number(n), s itself
\* for String(s), "true" or "false" for Bool, a rendering for a Mapping, and
\* None for Sequence and Null.
C7_StringTable ==
    (called = "parse" /\ args[1] = <<"String">>) =>
        LET v == args[2]
        IN  CASE Tag(v) = "Number" -> result = Some(<<"String", I64Text(v[2])>>)
              [] Tag(v) = "String" -> result = Some(<<"String", v[2]>>)
              [] Tag(v) = "Bool" ->
                    result = Some(<<"String",
                                    IF v[2] THEN <<"t", "r", "u", "e">>
                                    ELSE <<"f", "a", "l", "s", "e">>>>)
              [] Tag(v) = "Mapping" -> result /= None /\ result /= Panic
              [] OTHER -> result = None

IntTargets ==
    { <<<<"i64">>, TRUE, 4>>, <<<<"i32">>, TRUE, 2>>, <<<<"u64">>, FALSE, 4>>, <<<<"u32">>, FALSE, 2>> }

\* The literal lit (text, sign, magnitude) is a decimal literal of a target
\* with w limbs whose value lies in the target's range; a '-' sign is no part
\* of an unsigned literal.
LiteralInRange(lit, signed, w) ==
    LET half == [i \in 1..5 |-> IF i = w THEN HalfBase ELSE 0]
        full == [i \in 1..5 |-> IF i = w + 1 THEN 1 ELSE 0]
    IN  IF signed
        THEN IF lit[2] = "-" THEN CmpU(lit[3], half) /= Greater
             ELSE CmpU(lit[3], half) = Less
        ELSE lit[2] /= "-" /\ CmpU(lit[3], full) = Less

LiteralValue(lit, w) ==
    SubSeq(IF lit[2] = "-" THEN NegLimbs(lit[3]) ELSE lit[3], 1, w)

\* C8: for the integer targets, Number(n) gives n cast to the target width
\* (wrapping, never failing), Bool gives 1 or 0, a String holding a decimal
\* literal in the target's range gives its value and any other String is
\* fatal, Null, Sequence and Mapping give None; parse::<bool>(Number(n)) is
\* Some(n != 0).
C8_IntegerTable ==
    /\ parse(<<"i64">>, String(<<"4", "2">>)) = Some(<<"i64", I64(42)>>)
    /\ parse(<<"i64">>, Sequence(<<>>)) = None
    /\ parse(<<"bool">>, Number(I64(0))) = Some(<<"bool", FALSE>>)
    /\ \A tg \in IntTargets :
          (called = "parse" /\ args[1] = tg[1]) =>
              LET v  == args[2]
                  ty == tg[1][1]
                  w  == tg[3]
              IN  CASE Tag(v) = "Number" ->
                          result = Some(<<ty, [i \in 1..w |-> v[2][i]]>>)
                    [] Tag(v) = "Bool" ->
                          result = Some(<<ty, IF v[2] THEN I32(1) \o ZeroLimbs(w - 2)
                                              ELSE ZeroLimbs(w)>>)
                    [] Tag(v) = "String" ->
                          IF \E lit \in IntLiterals :
                                lit[1] = v[2] /\ LiteralInRange(lit, tg[2], w)
                          THEN \E lit \in IntLiterals :
                                  /\ lit[1] = v[2]
                                  /\ result = Some(<<ty, LiteralValue(lit, w)>>)
                          ELSE result = Panic
                    [] OTHER -> result = None
    /\ (called = "parse" /\ args[1] = <<"bool">> /\ Tag(args[2]) = "Number") =>
          result = Some(<<"bool", args[2] /= Number(I64(0))>>)

\* C8 witness: a Number wrapped to 32 bits, and a literal one past the
\* target's range.
C8_Witness ==
    /\ called = "parse"
    /\ \/ /\ args = <<<<"u32">>, Number(I64(-1))>>
          /\ result = Some(<<"u32", <<Base - 1, Base - 1>>>>)
       \/ /\ args = <<<<"i32">>, Number(TwoPow31)>>
          /\ result = Some(<<"i32", <<0, HalfBase>>>>)


(***************************************************************************)
(* SpecAssign: the compound assignments and negation                       *)
(***************************************************************************)

\* `*lhs += rhs` on i64: with overflow checks (debug builds) an overflow
\* panics, without them (release builds) it wraps.
AddI64(x, y, overflow_checks) ==
    LET sum      == WrapWidth(AddC(x, y, 0))
        overflow == IsNeg(x) = IsNeg(y) /\ IsNeg(sum) /= IsNeg(x)
    IN  IF overflow /\ overflow_checks THEN Panic ELSE Number(sum)

\* `*lhs -= rhs` on i64.
SubI64(x, y, overflow_checks) ==
    LET diff     == WrapWidth(AddC(x, NotLimbs(y), 1))
        overflow == IsNeg(x) /= IsNeg(y) /\ IsNeg(diff) /= IsNeg(x)
    IN  IF overflow /\ overflow_checks THEN Panic ELSE Number(diff)

\* impl AddAssign for YamlValue (yaml_value.rs:356-371): lhs afterwards.
add_assign(lhs, rhs, overflow_checks) ==
    CASE Tag(lhs) = "Number" /\ Tag(rhs) = "Number" ->
            AddI64(lhs[2], rhs[2], overflow_checks)
      [] Tag(lhs) = "String" /\ Tag(rhs) = "String" -> String(lhs[2] \o rhs[2])
      [] Tag(lhs) = "Sequence" /\ Tag(rhs) = "Sequence" ->
            Sequence(lhs[2] \o rhs[2])
      [] OTHER -> lhs

\* A subtraction that mirrors the addition on Strings and Sequences.
sub_assign_mirroring_add(lhs, rhs, overflow_checks) ==
    CASE Tag(lhs) = "Number" /\ Tag(rhs) = "Number" ->
            SubI64(lhs[2], rhs[2], overflow_checks)
      [] OTHER -> add_assign(lhs, rhs, overflow_checks)

\* impl SubAssign for YamlValue (yaml_value.rs:373-382): lhs afterwards.
sub_assign(lhs, rhs, overflow_checks) ==
    CASE Tag(lhs) = "Number" /\ Tag(rhs) = "Number" ->
            SubI64(lhs[2], rhs[2], overflow_checks)
      [] OTHER -> lhs

\* impl Neg for YamlValue (yaml_value.rs:384-393).
neg(v, overflow_checks) ==
    IF Tag(v) = "Number" THEN SubI64(I64(0), v[2], overflow_checks) ELSE Panic

\* Small integers, whose sums and differences are computed directly.
AssignInts == {-7, -2, 0, 1, 5}

AssignValues ==
    { Null, Bool(TRUE) }
    \cup { Number(I64(n)) : n \in AssignInts }
    \cup { Number(I64_MAX), Number(I64_MIN),
           String(<<>>), String(<<"a">>), String(<<"a", "b">>),
           Sequence(<<>>), Sequence(<<Null>>),
           Sequence(<<Number(I64(1)), String(<<"a">>)>>),
           MappingV(EmptyMapping), KeyAB }

InitAssign ==
    /\ args \in AssignValues \X AssignValues
    /\ result = None
    /\ called = "ready"
    /\ MapIdle
    /\ HashIdle

\* lhs += rhs; result is lhs afterwards.
AddAssign(overflow_checks) ==
    /\ called = "ready"
    /\ called' = "add_assign"
    /\ result' = add_assign(args[1], args[2], overflow_checks)
    /\ UNCHANGED <<args, mapVars, hashVars>>

\* lhs -= rhs; result is lhs afterwards.
SubAssign(overflow_checks) ==
    /\ called = "ready"
    /\ called' = "sub_assign"
    /\ result' = sub_assign(args[1], args[2], overflow_checks)
    /\ UNCHANGED <<args, mapVars, hashVars>>

\* -lhs.
Negate(overflow_checks) ==
    /\ called = "ready"
    /\ called' = "neg"
    /\ result' = neg(args[1], overflow_checks)
    /\ UNCHANGED <<args, mapVars, hashVars>>

NextAssign ==
    \/ \E overflow_checks \in BOOLEAN : AddAssign(overflow_checks)
    \/ \E overflow_checks \in BOOLEAN : SubAssign(overflow_checks)
    \/ \E overflow_checks \in BOOLEAN : Negate(overflow_checks)

SpecAssign == InitAssign /\ [][NextAssign]_vars

BothAre(tag) == Tag(args[1]) = tag /\ Tag(args[2]) = tag

\* C9: add-assign changes lhs only for Number pairs (integer sum), String
\* pairs (lhs followed by rhs) and Sequence pairs (lhs elements followed by
\* rhs elements); subtract-assign changes lhs only for Number pairs (integer
\* difference); for every other pair lhs is unchanged and nothing fails.
C9_CompoundAssignNoOpLaw ==
    /\ called = "add_assign" =>
          CASE BothAre("Number") ->
                  \A a \in AssignInts, b \in AssignInts :
                      args = <<Number(I64(a)), Number(I64(b))>> =>
                          result = Number(I64(a + b))
            [] BothAre("String") ->
                  /\ Tag(result) = "String"
                  /\ Len(result[2]) = Len(args[1][2]) + Len(args[2][2])
                  /\ \A i \in DOMAIN args[1][2] : result[2][i] = args[1][2][i]
                  /\ \A i \in DOMAIN args[2][2] :
                        result[2][Len(args[1][2]) + i] = args[2][2][i]
            [] BothAre("Sequence") ->
                  /\ Tag(result) = "Sequence"
                  /\ Len(result[2]) = Len(args[1][2]) + Len(args[2][2])
                  /\ \A i \in DOMAIN args[1][2] : result[2][i] = args[1][2][i]
                  /\ \A i \in DOMAIN args[2][2] :
                        result[2][Len(args[1][2]) + i] = args[2][2][i]
            [] OTHER -> result = args[1]
    /\ called = "sub_assign" =>
          CASE BothAre("Number") ->
                  \A a \in AssignInts, b \in AssignInts :
                      args = <<Number(I64(a)), Number(I64(b))>> =>
                          result = Number(I64(a - b))
            [] OTHER -> result = args[1]

\* C9 witness: String -= String and Number += String have run and left lhs
\* as it was.
C9_Witness ==
    \/ /\ called = "sub_assign"
       /\ args = <<String(<<"a">>), String(<<"a", "b">>)>>
       /\ result = String(<<"a">>)
    \/ /\ called = "add_assign"
       /\ args = <<Number(I64(5)), String(<<"a">>)>>
       /\ result = Number(I64(5))

(***************************************************************************)
(* Removal, the entry API and key uniqueness on the map machine            *)
(***************************************************************************)

\* What a removal of k does to map: swap with the last entry and shrink.
\* taken is the value handed back by the call.
RemoveEffect(k, taken) ==
    LET n == Len(map)
    IN  IF \E i \in DOMAIN map : ValueEq(map[i][1], k)
        THEN \E i \in DOMAIN map :
                /\ ValueEq(map[i][1], k)
                /\ taken = Some(map[i][2])
                /\ Len(map') = n - 1
                /\ i < n => map'[i] = map[n]
                /\ \A j \in 1..(n - 1) : j /= i => map'[j] = map[j]
        ELSE /\ taken = None
             /\ map' = map

\* C11: remove(k) of a present key at position i of a map of length n
\* returns its value, shrinks the map to n - 1, moves the former last entry
\* to position i (when i is not the last position) and leaves every other
\* entry where it was; remove of an absent key returns None and leaves the
\* map unchanged; OccupiedEntry::remove has the same effect.
C11_RemoveSwapsWithLast ==
    [][/\ lastOp' = "remove" =>
             \A k \in MapKeys : Remove(k) => RemoveEffect(k, ret')
       /\ lastOp' = "entry_remove" =>
             \A k \in MapKeys : EntryRemove(k) => RemoveEffect(k, ret')]_vars

\* C11 witness: a removal has taken the first entry out of a full map, so
\* that the entry that was last is now first; its key is a Mapping.
C11_Witness ==
    /\ lastOp \in {"remove", "entry_remove"}
    /\ ret = Some(Number(I64(0)))
    /\ Len(map) = MaxLen - 1
    /\ map[1] = <<KeyBA, String(<<"x">>)>>
    /\ \A i \in DOMAIN map : map[i][2] = String(<<"x">>)

\* What entry(k).or_insert(v1) does to map, and what a second
\* entry(k).or_insert(v2) then does to the result: it changes nothing and
\* hands back the same place, so the map after both calls is map'.
OrInsertTwiceEffect(k, v1, v2) ==
    LET present == \E i \in DOMAIN map : ValueEq(map[i][1], k)
        second  == or_insert(map', entry(map', k), v2)
        at      == ret'[2]
    IN  /\ ret'[1] = "Ref"
        /\ at \in DOMAIN map'
        /\ ValueEq(map'[at][1], k)
        /\ IF present
           THEN map' = map
           ELSE map' = Append(map, <<k, v1>>)
        /\ second = [map |-> map', ret |-> ret']
        /\ Cardinality({i \in DOMAIN map' : ValueEq(map'[i][1], k)}) = 1
        /\ Len(map') <= Len(map) + 1
        /\ \A i \in DOMAIN map : map'[i] = map[i]

\* C12: entry(k).or_insert(v1) followed by entry(k).or_insert(v2) returns a
\* handle to the same stored value both times (the value present before the
\* first call if k was present, else v1; v2 is never stored), the map holds
\* exactly one entry for k, the length grows by at most one over both calls,
\* and all other entries and their order are unchanged.
C12_OrInsertIdempotent ==
    [][lastOp' = "or_insert" =>
          \A k \in MapKeys, v1 \in MapVals :
              EntryOrInsert(k, v1) =>
                  \A v2 \in MapVals : OrInsertTwiceEffect(k, v1, v2)]_vars

\* C12 witness: or_insert has found the Mapping key of the first entry of a
\* full map, under a key built in the other order, and has handed back the
\* value stored there.
C12_Witness ==
    /\ lastOp = "or_insert"
    /\ ret = <<"Ref", 1>>
    /\ Len(map) = MaxLen
    /\ map[1] = <<KeyAB, Number(I64(0))>>
    /\ map[MaxLen] = <<String(<<"a">>), String(<<"x">>)>>
    /\ ~removed

\* C13: after any sequence of insert, remove, entry(..).or_insert /
\* or_insert_with / and_modify, extend, clear, get_mut and iter_mut value
\* mutations from an empty map, no two entries have equal keys (Mapping keys
\* compared without regard to their insertion order), len() is the number
\* of entries iterated, and contains_key(k) holds exactly for the keys
\* iterated.
C13_KeysAreUnique ==
    /\ \A i \in DOMAIN map, j \in DOMAIN map :
          i /= j => ~ValueEq(map[i][1], map[j][1])
    /\ len(map) = Len(iter(map))
    /\ \A k \in MapKeys :
          contains_key(map, k) <=>
              \E i \in DOMAIN iter(map) : ValueEq(iter(map)[i][1], k)

\* C13 witness: a full map holds a Mapping key; an insert under the same key
\* built in the other order has replaced its value instead of adding an
\* entry.
C13_Witness ==
    /\ lastOp = "insert"
    /\ Len(map) = MaxLen
    /\ ret = Some(Number(I64(0)))
    /\ \E i \in DOMAIN map : map[i] = <<KeyBA, String(<<"x">>)>>
    /\ contains_key(map, KeyAB)
    /\ removed

(***************************************************************************)
(* Document mappings, rendering of numbers                                 *)
(***************************************************************************)

\* C14: the Value built from a document mapping node m is a Mapping whose
\* iteration sequence is the entry sequence of m with every key and every
\* value converted, one entry per node entry in the node's order; the node
\* made from that Value lists the keys in the same order.
C14_NodeMappingKeepsEntries ==
    (called = "new" /\ args[2][1] = "Value::Mapping") =>
        LET es == args[2][2]
        IN  /\ Tag(result) = "Mapping"
            /\ iter(result[2]) = [i \in DOMAIN es |-> <<new(es[i][1]), new(es[i][2])>>]
            /\ to_node(result)[1] = "Value::Mapping"
            /\ [i \in DOMAIN to_node(result)[2] |-> to_node(result)[2][i][1]]
                  = [i \in DOMAIN es |-> to_node(new(es[i][1]))]

\* The texts that say the integer n: its decimal digits, alone, ended by a
\* newline, or as a whole document.
IntegerTexts(n) ==
    { I64Text(n), I64Text(n) \o <<"\n">>,
      <<"-", "-", "-", "\n">> \o I64Text(n) \o <<"\n">>,
      <<"-", "-", "-", " ">> \o I64Text(n) \o <<"\n">> }

\* C15: the document node made from Number(n) is a number node whose integer
\* form is n, a document number 2.7 constructs Number(2), and Number(n)
\* renders as the decimal text of n, not as a fractional or floating-point
\* literal.
C15_NumbersRenderAsIntegers ==
    /\ new(NodeNumber(Float(Fin(FALSE, NatLimbs(2, 5), 7)))) = Number(I64(2))
    /\ (called = "to_string" /\ Tag(args[2]) = "Number") =>
          /\ to_node(args[2])[1] = "Value::Number"
          /\ as_i64(to_node(args[2])[2]) = Some(args[2][2])
          /\ result \in IntegerTexts(args[2][2])

(***************************************************************************)
(* SpecCompile: compile_schemas over one directory                         *)
(***************************************************************************)

MaxFiles == 3

SchemaSuffix == <<".", "s", "c", "h", "e", "m", "a", ".", "y", "a", "m", "l">>

InputPath == <<"d">>

\* The names a directory may hold; file names are valid UTF-8.
FileNames ==
    { <<"a", ".", "s", "c", "h", "e", "m", "a", ".", "y", "a", "m", "l">>,
      <<"b", ".", "c", ".", "s", "c", "h", "e", "m", "a", ".", "y", "a", "m", "l">>,
      <<".", "s", "c", "h", "e", "m", "a", ".", "y", "a", "m", "l">>,
      <<"a", ".", "y", "a", "m", "l">>,
      <<"c", ".", "s", "c", "h", "e", "m", "a", ".", "y", "a", "m", "l", ".", "b", "a", "k">> }

\* read_dir yields each entry as a Result: a name, or an error.
DirEntries == { Ok(n) : n \in FileNames } \cup { Err }

\* The listings: up to MaxFiles distinct entries in any order.
Listings ==
    UNION { { l \in [1..n -> DirEntries] : \A i, j \in 1..n : i /= j => l[i] /= l[j] } :
            n \in 0..MaxFiles }

\* str::ends_with.
ends_with(s, suffix) ==
    /\ Len(s) >= Len(suffix)
    /\ SubSeq(s, Len(s) - Len(suffix) + 1, Len(s)) = suffix

\* DirEntry::path: the directory joined with the file name.
path(name) == InputPath \o <<"/">> \o name

\* Path::file_name: the last component of the path.
RECURSIVE file_name(_)
file_name(p) ==
    IF IndexOf(p, "/") = 0 THEN p
    ELSE file_name(SubSeq(p, IndexOf(p, "/") + 1, Len(p)))

\* split('.').take(1).collect::<String>(): the text before the first '.'.
RECURSIVE prefix_name(_)
prefix_name(s) ==
    IF Len(s) = 0 \/ s[1] = "." THEN <<>>
    ELSE <<s[1]>> \o prefix_name(Tail(s))

\* The filter chain of compile_schemas (converter.rs:7-10): the entries that
\* are Ok and whose path ends with the suffix, in listing order.
RECURSIVE input_files(_)
input_files(listing) ==
    IF Len(listing) = 0 THEN <<>>
    ELSE (IF listing[1] /= Err /\ ends_with(path(listing[1][2]), SchemaSuffix)
          THEN <<path(listing[1][2])>> ELSE <<>>) \o input_files(Tail(listing))

\* args = <<read_dir succeeds, listing, the paths whose generation fails>>.
InitCompile ==
    /\ \E readable \in BOOLEAN, l \in Listings :
          \E fails \in SUBSET {input_files(l)[i] : i \in DOMAIN input_files(l)} :
              args = <<readable, l, fails>>
    /\ result = None
    /\ called = "ready"
    /\ MapIdle
    /\ HashIdle

\* input_path.read_dir()? and the collect (converter.rs:7-10): an unreadable
\* directory returns the error at once.
ReadDir ==
    /\ called = "ready"
    /\ IF args[1]
       THEN /\ called' = "collected"
            /\ result' = [input_files |-> input_files(args[2]),
                          generated |-> <<>>, value |-> None]
       ELSE /\ called' = "returned"
            /\ result' = [input_files |-> <<>>, generated |-> <<>>, value |-> Err]
    /\ UNCHANGED <<args, mapVars, hashVars>>

\* One turn of the loop (converter.rs:15-27): the generator is given the
\* root name and the input file and writes to <root name>.rs; its failure
\* is unwrapped.
Generate ==
    /\ called = "collected"
    /\ result.input_files /= <<>>
    /\ LET file   == Head(result.input_files)
           prefix == prefix_name(file_name(file))
           call   == [root_name |-> prefix, input_file |-> file,
                      output_file |-> prefix \o <<".", "r", "s">>]
       IN  IF file \in args[3]
           THEN /\ called' = "panicked"
                /\ result' = [result EXCEPT !.generated = Append(@, call),
                                            !.value = Panic]
           ELSE /\ called' = "collected"
                /\ result' = [result EXCEPT !.generated = Append(@, call),
                                            !.input_files = Tail(@)]
    /\ UNCHANGED <<args, mapVars, hashVars>>

\* Ok(()) after the loop (converter.rs:29).
Return ==
    /\ called = "collected"
    /\ result.input_files = <<>>
    /\ called' = "returned"
    /\ result' = [result EXCEPT !.value = Ok(<<>>)]
    /\ UNCHANGED <<args, mapVars, hashVars>>

NextCompile == ReadDir \/ Generate \/ Return

SpecCompile == InitCompile /\ [][NextCompile]_vars

\* The files of the listing whose name ends in the schema suffix.
SchemaFiles(listing) ==
    { listing[i][2] : i \in {j \in DOMAIN listing :
                               /\ listing[j] /= Err
                               /\ ends_with(listing[j][2], SchemaSuffix)} }

\* C16: when generation fails for some schema files, the run of
\* compile_schemas still passes every file whose name ends in the schema
\* suffix to the generator, each exactly once with the identifier taken from
\* its file name before the first '.', and does not terminate on the failure.
C16_FailureDoesNotAbortBatch ==
    (called \in {"returned", "panicked"} /\ args[1]) =>
        /\ called = "returned"
        /\ \A f \in SchemaFiles(args[2]) :
              \E i \in DOMAIN result.generated :
                  /\ result.generated[i].input_file = InputPath \o <<"/">> \o f
                  /\ result.generated[i].root_name
                        = SubSeq(f, 1, IndexOf(f, ".") - 1)
                  /\ \A j \in DOMAIN result.generated :
                        result.generated[j].input_file
                            = result.generated[i].input_file => j = i

=============================================================================
